---- MODULE Spec2Model ----
(***************************************************************************)
(* AffiliationService of quyca (src/quyca/services/affiliation.py).        *)
(*                                                                         *)
(* The service is stateless; its state here is the request in progress:    *)
(* the AffiliationSearch object a caller holds, the collaborator queries   *)
(* the latest handler issued, and the response being built.  The           *)
(* repositories are collaborators: what they answer is chosen at the call. *)
(***************************************************************************)
EXTENDS Integers, Sequences, FiniteSets, TLC

VARIABLES
    op,        \* the handler the request runs: "idle", "update", "get_info", "search", "get_affiliations"
    status,    \* "none", "running", "ok" (returned) or "failed" (an exception left the handler)
    src,       \* the stored document the held object was validated from
    obj,       \* the AffiliationSearch / AffiliationInfo object held by the caller
    calls,     \* the collaborator queries issued by the latest handler invocation
    repeat,    \* the latest update_affiliation_search ran on an enriched object with unchanged collaborator data
    args,      \* the arguments of the request (params of search, id and typ of get_affiliations)
    db_objs,   \* search: the page returned by repository.search
    total,     \* search: the count returned by repository.search
    data,      \* search: the enriched records collected so far
    attempts,  \* search: number of update_affiliation_search invocations of this request
    raised,    \* a collaborator call of this request raised
    response   \* what the handler returned

vars == <<op, status, src, obj, calls, repeat, args, db_objs, total, data, attempts, raised, response>>

----------------------------------------------------------------------------
(* Bounds of the model *)

MaxRels == 1      \* longest relations list of a document
MaxTypes == 2     \* longest types list of a document
MaxMatches == 3   \* most documents a search query matches
MaxLimit == 2     \* largest params.max
MaxPage == 2      \* largest params.page

----------------------------------------------------------------------------
(* Python values *)

None == "None"

\* What a collaborator call yields: a value, an exception, or (get_by_id of
\* the calculations repository) no record
Returned(v) == [status |-> "ok", value |-> v]

Raise == [status |-> "raise"]

NotFound == [status |-> "notfound"]

NoResponse == [kind |-> "none"]

NoArgs == [kind |-> "none"]

\* Python truthiness of an optional string: None and "" are falsy
Truthy(v) == v \notin {None, ""}

Min(S) == CHOOSE x \in S : \A y \in S : x <= y

SeqsUpTo(S, n) == UNION {[1..k -> S] : k \in 0..n}

NonEmptySeqsUpTo(S, n) == UNION {[1..k -> S] : k \in 1..n}

----------------------------------------------------------------------------
(* core/config.py *)

institutions ==
    {"Archive", "Company", "Education", "Facility", "Government", "Healthcare",
     "Nonprofit", "Other", "archive", "company", "education", "facility",
     "government", "healthcare", "nonprofit", "other", "institution"}

----------------------------------------------------------------------------
(* Documents *)

DocIds == {"a1"}

PrimaryTypes == {"institution", "faculty", "department", "group"}

RelTags == {"Education", "faculty", "department", "author"}

RelLogos == {None, "logo1.png"}

DocLogos == {None, "old.png"}

Counts == {0, 2}

Relations == [type : RelTags, logo : RelLogos]

Types == [type : PrimaryTypes]

Docs ==
    [id : DocIds,
     types : NonEmptySeqsUpTo(Types, MaxTypes),
     relations : SeqsUpTo(Relations, MaxRels),
     logo : DocLogos]

\* AffiliationSearch.model_validate_json(obj.model_dump_json()): the derived
\* fields start at their defaults
model_validate_json(doc) ==
    [id |-> doc.id, types |-> doc.types, relations |-> doc.relations,
     logo |-> doc.logo, affiliations |-> <<>>,
     products_count |-> 0, citations_count |-> 0]

NoObj == [id |-> None]

----------------------------------------------------------------------------
(* AffiliationRepository.upside_relations: the Relation Resolver *)

Tier(tag) ==
    IF tag \in institutions THEN 4
    ELSE IF tag = "faculty" THEN 3
    ELSE IF tag = "department" THEN 2
    ELSE IF tag = "group" THEN 1
    ELSE 0

IsUpside(rel, typ) == Tier(typ) >= 1 /\ Tier(rel.type) > Tier(typ)

UpsideLogo(parents) ==
    LET withLogo == {i \in DOMAIN parents : Truthy(parents[i].logo)}
    IN  IF withLogo = {} THEN None
        ELSE LET closest == Min({Tier(parents[i].type) : i \in withLogo})
                 first == Min({i \in withLogo : Tier(parents[i].type) = closest})
             IN  parents[first].logo

upside_relations(relations, typ) ==
    LET parents == SelectSeq(relations, LAMBDA rel : IsUpside(rel, typ))
    IN  [affiliations |-> parents, logo |-> UpsideLogo(parents)]

----------------------------------------------------------------------------
(* AffiliationService.update_affiliation_search *)

Call(fn, a, ans) == [fn |-> fn, args |-> a, ans |-> ans]

\* faulty variant: obj.types[-1].type
UpsideArgsLastType(o) ==
    [relations |-> o.relations, typ |-> o.types[Len(o.types)].type]

UpsideArgs(o) == [relations |-> o.relations, typ |-> o.types[1].type]

\* faulty variant: affiliation_type = obj.types[-1].type
CountArgsLastType(o) ==
    [affiliation_id |-> o.id, affiliation_type |-> o.types[Len(o.types)].type]

CountArgs(o) == [affiliation_id |-> o.id, affiliation_type |-> o.types[1].type]

CalcArgs(o) == [id |-> o.id]

\* faulty variant: obj.affiliations += affiliations
SetAffiliationsAppend(o, affiliations) ==
    [o EXCEPT !.affiliations = o.affiliations \o affiliations]

\* faulty variant: obj.relations = affiliations as well
SetAffiliationsAndRelations(o, affiliations) ==
    [o EXCEPT !.affiliations = affiliations, !.relations = affiliations]

SetAffiliations(o, affiliations) == [o EXCEPT !.affiliations = affiliations]

\* faulty variant: obj.logo = logo
SetLogoAlways(logo, old) == logo

SetLogo(logo, old) == IF Truthy(logo) THEN logo ELSE old

\* What the three collaborators answer to one invocation; a call after one
\* that raised is never made
Outcomes ==
    {[upside |-> Raise, count |-> Raise, calc |-> Raise]}
    \cup {[upside |-> Returned(None), count |-> Raise, calc |-> Raise]}
    \cup [upside : {Returned(None)},
          count : {Returned(n) : n \in Counts},
          calc : {Returned(n) : n \in Counts} \cup {NotFound, Raise}]

\* .citations_count of what get_by_id returned: there is none to read when
\* the repository raised or found no record
CalcFails(ans) == ans \in {NotFound, Raise}

update_affiliation_search(o, out) ==
    LET up == upside_relations(UpsideArgs(o).relations, UpsideArgs(o).typ)
        c1 == Call("upside_relations", UpsideArgs(o),
                   IF out.upside = Raise THEN Raise ELSE Returned(up))
        o1 == [SetAffiliations(o, up.affiliations) EXCEPT !.logo = SetLogo(up.logo, o.logo)]
        c2 == Call("count_papers", CountArgs(o1), out.count)
        o2 == [o1 EXCEPT !.products_count = out.count.value]
        c3 == Call("get_by_id", CalcArgs(o2), out.calc)
        o3 == [o2 EXCEPT !.citations_count = out.calc.value]
    IN  IF out.upside = Raise THEN [obj |-> o, ok |-> FALSE, calls |-> <<c1>>]
        ELSE IF out.count = Raise THEN [obj |-> o1, ok |-> FALSE, calls |-> <<c1, c2>>]
        ELSE IF CalcFails(out.calc) THEN [obj |-> o2, ok |-> FALSE, calls |-> <<c1, c2, c3>>]
        ELSE [obj |-> o3, ok |-> TRUE, calls |-> <<c1, c2, c3>>]

\* The collaborators' data did not change between two invocations: the same
\* query got the same answer
Unchanged(before, after) ==
    \A i \in DOMAIN before, j \in DOMAIN after :
        (before[i].fn = after[j].fn /\ before[i].args = after[j].args)
            => before[i].ans = after[j].ans

----------------------------------------------------------------------------
(* The entity store behind AffiliationRepository *)

TierSeq == <<"institution", "faculty", "department", "group">>

\* the i-th document of the store
StoredDoc(i) ==
    [id |-> "a" \o ToString(i),
     types |-> IF i % 2 = 0
               THEN <<[type |-> TierSeq[((i - 1) % 4) + 1]], [type |-> "institution"]>>
               ELSE <<[type |-> TierSeq[((i - 1) % 4) + 1]]>>,
     relations |-> IF i % 2 = 1
                   THEN <<[type |-> "Education", logo |-> "logo1.png"]>>
                   ELSE <<>>,
     logo |-> IF i % 2 = 0 THEN "old.png" ELSE None]

StoredIds == {StoredDoc(i).id : i \in 1..MaxMatches}

\* repository.get_by_id(id=id)
get_by_id(id) ==
    IF id \in StoredIds
    THEN Returned(StoredDoc(CHOOSE i \in 1..MaxMatches : StoredDoc(i).id = id))
    ELSE Raise

\* params.skip of the query params
Skip(params) == (params.page - 1) * params.max

\* repository.search(...): the page of the n matching documents and n
repository_search(n, skip, limit) ==
    LET last == IF skip + limit < n THEN skip + limit ELSE n
    IN  [db_objs |-> [i \in 1..(IF last > skip THEN last - skip ELSE 0) |-> StoredDoc(skip + i)],
         count |-> n]

----------------------------------------------------------------------------
(* AffiliationService.search and get_info *)

\* model_dump_json(exclude_none=True): a None logo is left out of the record
dump_exclude_none(o) ==
    IF o.logo = None
    THEN [field \in (DOMAIN o) \ {"logo"} |-> o[field]]
    ELSE o

\* faulty variant: a record whose enrichment raised is skipped
CollectSkipFailed(d, r) ==
    IF r.ok
    THEN [status |-> "running", data |-> Append(d, r.obj)]
    ELSE [status |-> "running", data |-> d]

\* the list comprehension over db_objs: an exception leaves it, a result is collected
Collect(d, r) ==
    IF r.ok
    THEN [status |-> "running", data |-> Append(d, r.obj)]
    ELSE [status |-> "failed", data |-> d]

\* results.count = len(data)
\* faulty variant: results.count = count
SearchCountTotal(d, count) == count

SearchCount(d, count) == Len(d)

SearchResponse(params, d, count) ==
    [kind |-> "multi", total_results |-> count, page |-> params.page,
     data |-> [i \in DOMAIN d |-> dump_exclude_none(d[i])],
     count |-> SearchCount(d, count)]

----------------------------------------------------------------------------
(* AffiliationService.get_affiliations *)

RelatedIds == {"a1", "a2"}

\* the typ argument: the four tiers, a vocabulary synonym, an unknown string, absent
TypArgs == PrimaryTypes \cup {"Education", "bogus", None}

\* what a repository lists for one tier
ChildLists == {<<>>, <<"c1">>, <<"c1", "c2">>}

\* the tiers in the order the handler tests them
TierKeys == <<"faculties", "departments", "groups", "authors">>

FacultiesWhen == {"institution"}

DepartmentsWhen == {"faculty", "institution"}

\* faulty variant: an institution is not asked for its groups
GroupsWhenWithoutInstitution == {"department", "faculty"}

GroupsWhen == {"department", "faculty", "institution"}

\* faulty variant: a faculty is not asked for its authors
AuthorsWhenWithoutFaculty == {"group", "department"}

AuthorsWhen == {"group", "department", "faculty"}

TierWhen(key) ==
    CASE key = "faculties" -> FacultiesWhen
      [] key = "departments" -> DepartmentsWhen
      [] key = "groups" -> GroupsWhen
      [] key = "authors" -> AuthorsWhen

\* the relation type each tier is queried with
TierTarget(key) ==
    CASE key = "faculties" -> "faculty"
      [] key = "departments" -> "department"
      [] key = "groups" -> "group"
      [] key = "authors" -> "author"

Queried(typ) == SelectSeq(TierKeys, LAMBDA key : typ \in TierWhen(key))

RelatedCall(key, id, typ, ans) ==
    IF key = "authors"
    THEN Call("get_authors_by_affiliation", [id |-> id, typ |-> typ], ans)
    ELSE Call("get_affiliations_related_type",
              [id |-> id, relation_type |-> TierTarget(key), typ |-> typ], ans)

\* AffiliationRelatedInfo.model_validate(data): a tier the dict lacks is None
model_validate(d) ==
    [key \in {TierKeys[i] : i \in DOMAIN TierKeys} |->
        IF key \in DOMAIN d THEN d[key] ELSE None]

\* result.model_dump(exclude_none=True)
model_dump(m) ==
    [key \in {k \in DOMAIN m : m[k] # None} |-> m[key]]

\* ans: what the repository answers for each tier the handler queries
get_affiliations(id, typ, ans) ==
    LET qs == Queried(typ)
        failing == {i \in DOMAIN qs : ans[qs[i]] = Raise}
        last == IF failing = {} THEN Len(qs) ELSE Min(failing)
        issued == [i \in 1..last |-> RelatedCall(qs[i], id, typ, ans[qs[i]])]
        d == [key \in {qs[i] : i \in DOMAIN qs} |-> ans[key].value]
    IN  IF failing # {}
        THEN [ok |-> FALSE, calls |-> issued, result |-> NoResponse]
        ELSE [ok |-> TRUE, calls |-> issued,
              result |-> [kind |-> "related", data |-> model_dump(model_validate(d))]]

----------------------------------------------------------------------------
(* Actions *)

Idle ==
    /\ op = "idle" /\ status = "none"
    /\ src = NoObj /\ obj = NoObj
    /\ calls = <<>> /\ repeat = FALSE
    /\ args = NoArgs /\ db_objs = <<>> /\ total = 0 /\ data = <<>>
    /\ attempts = 0 /\ raised = FALSE
    /\ response = NoResponse

Init == Idle

\* A caller builds an AffiliationSearch from a stored document
Validate ==
    /\ op = "idle"
    /\ \E doc \in Docs :
        /\ src' = doc
        /\ obj' = model_validate_json(doc)
    /\ op' = "update"
    /\ UNCHANGED <<status, calls, repeat, args, db_objs, total, data, attempts, raised, response>>

\* update_affiliation_search(obj) on the held object, fresh or enriched
UpdateAffiliationSearch ==
    /\ op = "update"
    /\ \E out \in Outcomes :
        LET r == update_affiliation_search(obj, out)
        IN  /\ obj' = r.obj
            /\ calls' = r.calls
            /\ status' = IF r.ok THEN "ok" ELSE "failed"
            /\ raised' = ~r.ok
            /\ repeat' = (status = "ok" /\ r.ok /\ Unchanged(calls, r.calls))
            /\ response' = IF r.ok THEN [kind |-> "object", data |-> r.obj] ELSE NoResponse
    /\ UNCHANGED <<op, src, args, db_objs, total, data, attempts>>

\* search(params=params): repository.search
SearchQuery ==
    /\ op = "idle"
    /\ \E page \in 1..MaxPage, max \in 1..MaxLimit, n \in 0..MaxMatches, fails \in BOOLEAN :
        LET params == [kind |-> "search", page |-> page, max |-> max]
            found == repository_search(n, Skip(params), params.max)
            q == [skip |-> Skip(params), limit |-> params.max]
        IN  /\ args' = params
            /\ IF fails
               THEN /\ calls' = <<Call("search", q, Raise)>>
                    /\ status' = "failed"
                    /\ db_objs' = <<>>
                    /\ total' = 0
               ELSE /\ calls' = <<Call("search", q, Returned(found))>>
                    /\ status' = "running"
                    /\ db_objs' = found.db_objs
                    /\ total' = found.count
            /\ raised' = fails
    /\ op' = "search"
    /\ UNCHANGED <<src, obj, repeat, data, attempts, response>>

\* search: update_affiliation_search on the next record of the page
SearchEnrich ==
    /\ op = "search" /\ status = "running"
    /\ attempts < Len(db_objs)
    /\ \E out \in Outcomes :
        LET r == update_affiliation_search(model_validate_json(db_objs[attempts + 1]), out)
            c == Collect(data, r)
        IN  /\ calls' = r.calls
            /\ data' = c.data
            /\ status' = c.status
            /\ raised' = (raised \/ ~r.ok)
    /\ attempts' = attempts + 1
    /\ UNCHANGED <<op, src, obj, repeat, args, db_objs, total, response>>

\* search: the response
SearchReturn ==
    /\ op = "search" /\ status = "running"
    /\ attempts = Len(db_objs)
    /\ response' = SearchResponse(args, data, total)
    /\ status' = "ok"
    /\ UNCHANGED <<op, src, obj, calls, repeat, args, db_objs, total, data, attempts, raised>>

\* get_info(id=id)
GetInfo ==
    /\ op = "idle"
    /\ \E id \in StoredIds \cup {"missing"}, out \in Outcomes :
        LET basic_info == get_by_id(id)
        IN  /\ args' = [kind |-> "info", id |-> id]
            /\ IF basic_info = Raise
               THEN /\ calls' = <<Call("get_by_id", [id |-> id], Raise)>>
                    /\ status' = "failed"
                    /\ raised' = TRUE
                    /\ response' = NoResponse
                    /\ UNCHANGED <<src, obj>>
               ELSE LET r == update_affiliation_search(model_validate_json(basic_info.value), out)
                    IN  /\ src' = basic_info.value
                        /\ obj' = r.obj
                        /\ calls' = r.calls
                        /\ status' = IF r.ok THEN "ok" ELSE "failed"
                        /\ raised' = ~r.ok
                        /\ response' = IF r.ok
                                       THEN [kind |-> "info", data |-> r.obj, filters |-> <<>>]
                                       ELSE NoResponse
    /\ op' = "get_info"
    /\ UNCHANGED <<repeat, db_objs, total, data, attempts>>

\* get_affiliations(id=id, typ=typ)
GetAffiliations ==
    /\ op = "idle"
    /\ \E id \in RelatedIds, typ \in TypArgs :
        \E ans \in [{Queried(typ)[i] : i \in DOMAIN Queried(typ)} ->
                        {Returned(l) : l \in ChildLists} \cup {Raise}] :
            LET r == get_affiliations(id, typ, ans)
            IN  /\ args' = [kind |-> "related", id |-> id, typ |-> typ]
                /\ calls' = r.calls
                /\ status' = IF r.ok THEN "ok" ELSE "failed"
                /\ raised' = ~r.ok
                /\ response' = r.result
    /\ op' = "get_affiliations"
    /\ UNCHANGED <<src, obj, repeat, db_objs, total, data, attempts>>

\* The request is over; nothing of it is kept
Finish ==
    /\ op # "idle"
    /\ status \in {"ok", "failed"}
    /\ op' = "idle" /\ status' = "none"
    /\ src' = NoObj /\ obj' = NoObj
    /\ calls' = <<>> /\ repeat' = FALSE
    /\ args' = NoArgs /\ db_objs' = <<>> /\ total' = 0 /\ data' = <<>>
    /\ attempts' = 0 /\ raised' = FALSE
    /\ response' = NoResponse

NextEnrich ==
    \/ Validate
    \/ UpdateAffiliationSearch
    \/ Finish

NextRelated ==
    \/ GetAffiliations
    \/ Finish

NextStore ==
    \/ SearchQuery
    \/ SearchEnrich
    \/ SearchReturn
    \/ GetInfo
    \/ Finish

Next ==
    \/ NextEnrich
    \/ NextStore
    \/ NextRelated

Spec == Init /\ [][Next]_vars

\* update_affiliation_search on objects a caller holds
SpecEnrich == Init /\ [][NextEnrich]_vars

\* search and get_info over the entity store
SpecStore == Init /\ [][NextStore]_vars

\* get_affiliations
SpecRelated == Init /\ [][NextRelated]_vars

----------------------------------------------------------------------------
(* Properties *)

Failed(ans) == ans.status # "ok"

CallsOf(fn) == {i \in DOMAIN calls : calls[i].fn = fn}

RelatedKeys == DOMAIN response.data

Related(typ) == op = "get_affiliations" /\ args.typ = typ

\* C1: for every typ, get_affiliations fails only when a repository query
\* raised, and otherwise returns exactly the tiers eligible for typ:
\* faculties iff institution; departments iff faculty or institution; groups
\* iff department, faculty or institution; authors iff group, department or
\* faculty.  An unrecognized or absent typ issues no query and returns no tier.
C1_TierKeysFollowType ==
    op = "get_affiliations" =>
        /\ status = "failed" => \E i \in DOMAIN calls : Failed(calls[i].ans)
        /\ args.typ \notin {"institution", "faculty", "department", "group"} =>
                status = "ok" /\ calls = <<>> /\ RelatedKeys = {}
        /\ status = "ok" =>
            /\ "faculties" \in RelatedKeys <=> args.typ = "institution"
            /\ "departments" \in RelatedKeys <=> args.typ \in {"faculty", "institution"}
            /\ "groups" \in RelatedKeys <=> args.typ \in {"department", "faculty", "institution"}
            /\ "authors" \in RelatedKeys <=> args.typ \in {"group", "department", "faculty"}
            /\ RelatedKeys \subseteq {"faculties", "departments", "groups", "authors"}
            /\ args.typ = "institution" => RelatedKeys = {"faculties", "departments", "groups"}
            /\ args.typ = "group" => RelatedKeys = {"authors"}

C1_Witness ==
    /\ Related("institution") /\ status = "ok"
    /\ RelatedKeys = {"faculties", "departments", "groups"}
    /\ response.data["groups"] = <<>>
    /\ response.data["faculties"] = <<"c1", "c2">>

\* C2 as stated: with typ "faculty" the result has departments and groups
\* only, and no authors query is issued.
C2_FacultyWithoutAuthors ==
    (Related("faculty") /\ status = "ok") =>
        /\ RelatedKeys = {"departments", "groups"}
        /\ CallsOf("get_authors_by_affiliation") = {}

\* C2 amended: with typ "faculty" the result has departments, groups and
\* authors and no faculties; one authors query is issued, for (id, "faculty"),
\* and no query for the faculty tier.
C2_FacultyWithAuthors ==
    (Related("faculty") /\ status = "ok") =>
        /\ RelatedKeys = {"departments", "groups", "authors"}
        /\ Cardinality(CallsOf("get_authors_by_affiliation")) = 1
        /\ \A i \in CallsOf("get_authors_by_affiliation") :
                /\ calls[i].args = [id |-> args.id, typ |-> "faculty"]
                /\ response.data["authors"] = calls[i].ans.value
        /\ \A i \in CallsOf("get_affiliations_related_type") :
                calls[i].args.relation_type # "faculty"

C2_Witness ==
    /\ Related("faculty") /\ status = "ok"
    /\ response.data["authors"] = <<"c1">>
    /\ response.data["departments"] = <<>>

\* a step of update_affiliation_search on the held object
UpdateStep == op = "update" /\ op' = "update"

ResolvedLogo(cs) == cs[1].ans.value.logo

\* C3: update_affiliation_search overwrites logo only with a non-empty logo
\* of the resolver; when the resolver gives None or "", the logo the object
\* had before the call is kept.
C3_LogoKeptWithoutOverride ==
    [][(UpdateStep /\ ~Failed(calls'[1].ans)) =>
          /\ Truthy(ResolvedLogo(calls')) => obj'.logo = ResolvedLogo(calls')
          /\ ~Truthy(ResolvedLogo(calls')) => obj'.logo = obj.logo]_vars

C3_Witness ==
    /\ op = "update" /\ status = "ok"
    /\ src.types[1].type = "department" /\ src.relations = <<>>
    /\ src.logo = "old.png"
    /\ ResolvedLogo(calls) = None
    /\ obj.logo = "old.png"

\* C4: citations_count is the citations_count of the record get_by_id
\* returned for the object's id, and when no record exists for that id the
\* call completes with citations_count 0.
C4_CitationsDefaultZero ==
    (op = "update" /\ CallsOf("get_by_id") # {}) =>
        \A i \in CallsOf("get_by_id") :
            /\ calls[i].args = [id |-> obj.id]
            /\ calls[i].ans.status = "ok" =>
                    status = "ok" /\ obj.citations_count = calls[i].ans.value
            /\ calls[i].ans = NotFound =>
                    status = "ok" /\ obj.citations_count = 0

\* C5: a search response has count = len(data) <= params.max, and
\* total_results is the count of all matches the repository reported.
C5_CountIsPageLength ==
    (op = "search" /\ status = "ok") =>
        /\ response.count = Len(response.data)
        /\ response.count <= args.max
        /\ response.total_results = total
        /\ response.count <= response.total_results

C5_Witness ==
    /\ op = "search" /\ status = "ok"
    /\ args.max = 2
    /\ response.total_results = 3
    /\ response.count = 2
    /\ Len(response.data) = 2

\* C6: update_affiliation_search on an enriched object, the collaborators
\* answering as they did for the previous call, leaves the object as it was.
C6_EnrichIdempotent ==
    [][(UpdateStep /\ status = "ok" /\ status' = "ok" /\ Unchanged(calls, calls'))
          => obj' = obj]_vars

C6_Witness ==
    /\ op = "update" /\ status = "ok" /\ repeat
    /\ Len(obj.affiliations) = 1
    /\ obj.logo = "logo1.png" /\ src.logo = "old.png"
    /\ obj.products_count = 2 /\ obj.citations_count = 2

\* C7: in search, once a collaborator call failed the request has failed:
\* nothing is returned, the failing call is the last one made (no retry), and
\* no record after the failing one is enriched.
C7_SearchFailsFast ==
    (op = "search" /\ raised) =>
        /\ status = "failed"
        /\ response = NoResponse
        /\ Failed(calls[Len(calls)].ans)
        /\ \A i \in 1..(Len(calls) - 1) : ~Failed(calls[i].ans)
        /\ \A i, j \in DOMAIN calls : calls[i].fn = calls[j].fn => i = j
        /\ attempts >= 1 => attempts = Len(data) + 1

C7_Witness ==
    /\ op = "search" /\ status = "failed"
    /\ Len(db_objs) = 2 /\ attempts = 2 /\ Len(data) = 1
    /\ calls[Len(calls)].fn = "count_papers"

\* C8: products_count is the answer of the one count_papers query of the
\* call, whose parameters are the object's id and types[0].type.
C8_ProductsCountByPrimaryType ==
    (op = "update" /\ Len(calls) >= 2) =>
        /\ Cardinality(CallsOf("count_papers")) = 1
        /\ \A i \in CallsOf("count_papers") :
            /\ calls[i].args = [affiliation_id |-> src.id,
                                affiliation_type |-> src.types[1].type]
            /\ status = "ok" => obj.products_count = calls[i].ans.value

C8_Witness ==
    /\ op = "update" /\ status = "ok"
    /\ Len(src.types) = 2 /\ src.types[1].type = "group" /\ src.types[2].type = "institution"
    /\ obj.products_count = 2

InstitutionTagged(rel) == rel.type \in institutions

ParentOf(typ, rel) ==
    CASE typ = "group" -> InstitutionTagged(rel) \/ rel.type \in {"department", "faculty"}
      [] typ = "department" -> InstitutionTagged(rel) \/ rel.type = "faculty"
      [] typ = "faculty" -> InstitutionTagged(rel)
      [] OTHER -> FALSE

C10_FrameOfEnrichment ==
    op = "update" =>
        /\ obj.id = src.id /\ obj.types = src.types /\ obj.relations = src.relations
        /\ DOMAIN obj = {"id", "types", "relations", "logo", "affiliations",
                         "products_count", "citations_count"}
        /\ \A i \in CallsOf("upside_relations") :
                calls[i].args = [relations |-> src.relations, typ |-> src.types[1].type]

C10_Witness ==
    /\ op = "update" /\ status = "ok" /\ repeat
    /\ Len(obj.relations) = 1 /\ Len(obj.affiliations) = 1
    /\ obj.logo # src.logo
    /\ obj.products_count = 2 /\ obj.citations_count = 2

====
